---- MODULE Spec2Model ----
(***************************************************************************)
(* A model of the linked-list queue of queue.c: the queue_t record (head,  *)
(* tail, size), the heap of list_ele_t cells, and the public operations    *)
(* q_insert_head, q_insert_tail, q_remove_head, q_reverse, q_sort, q_free. *)
(* Strings are byte arrays with a terminating 0, as in C.                  *)
(***************************************************************************)
EXTENDS Integers, Sequences, FiniteSets, TLC

VARIABLES q, head, tail, size, heap, alloc, vals, buf, cap, lastOp, lastRet, streak, frames,
          pre, abs, net, uaf

vars == <<q, head, tail, size, heap, alloc, vals, buf, cap, lastOp, lastRet, streak, frames,
          pre, abs, net, uaf>>

\* ------------------------------------------------------------------ bounds

\* Number of list_ele_t cells the allocator can hand out; malloc returns NULL
\* when none is free.
MaxNodes == 3

\* The texts the caller inserts (without their terminator).
Payloads == {<<1>>, <<1, 1>>, <<2>>}

\* Physical length of the caller's output buffer, two bytes more than the
\* longest text; bufsize ranges over 0 .. MaxBuf.
MaxBuf == 2 + CHOOSE n \in 0 .. 8 : /\ \E t \in Payloads : Len(t) = n
                                   /\ \A t \in Payloads : Len(t) <= n

\* ------------------------------------------------------------- C values

NULL == 0

\* The terminating byte of a C string.
NUL == 0

\* Content of a byte that nothing has written yet.
Fill == 9

NodeIds == 1 .. MaxNodes

Min(a, b) == IF a < b THEN a ELSE b

\* A caller's text as the C string it passes: the text and its terminator.
CStr(t) == Append(t, NUL)

RECURSIVE strlenFrom(_, _)
strlenFrom(s, i) == IF s[i] = NUL THEN 0 ELSE 1 + strlenFrom(s, i + 1)

\* strlen: the number of bytes before the first terminator.
strlen(s) == strlenFrom(s, 1)

\* The text a C string holds: its bytes before the terminator.
Text(s) == SubSeq(s, 1, strlen(s))

\* A freshly malloc'ed block of n bytes.
Block(n) == [i \in 1 .. n |-> Fill]

\* The copy that ignores sz, as strcpy does.
strlcpy_nolimit(dst, src, sz) ==
    [i \in 1 .. Len(dst) |->
        IF i <= strlen(src) THEN src[i] ELSE IF i = strlen(src) + 1 THEN NUL ELSE dst[i]]

\* strlcpy(dst, src, sz), i.e. snprintf(dst, sz, "%s", src): nothing is
\* written when sz = 0; otherwise min(strlen(src), sz - 1) bytes and a
\* terminator are written, the rest of dst is left alone.
strlcpy(dst, src, sz) ==
    IF sz = 0 THEN dst
    ELSE LET n == Min(strlen(src), sz - 1)
         IN  [i \in 1 .. Len(dst) |->
                 IF i <= n THEN src[i] ELSE IF i = n + 1 THEN NUL ELSE dst[i]]

RECURSIVE strcmpFrom(_, _, _)
strcmpFrom(a, b, i) ==
    IF a[i] # b[i] THEN a[i] - b[i]
    ELSE IF a[i] = NUL THEN 0
    ELSE strcmpFrom(a, b, i + 1)

\* strcmp: the difference of the first pair of bytes that differ, 0 if none.
strcmp(a, b) == strcmpFrom(a, b, 1)

\* A cell that is not allocated.
FreeCell == [value |-> <<NUL>>, next |-> NULL]

\* The caller's buffer before a call, and when there is none.
FreshBuf == Block(MaxBuf)

NoBuf == <<>>

\* ----------------------------------------------------------- list helpers

RECURSIVE WalkN(_, _, _)
\* The cells met by following next from p, at most fuel of them.
WalkN(h, p, fuel) ==
    IF p = NULL \/ fuel = 0 THEN <<>>
    ELSE <<p>> \o WalkN(h, h[p].next, fuel - 1)

\* The chain from p; a chain longer than the heap has cells is cut (it has a
\* cycle).
Walk(h, p) == WalkN(h, p, Cardinality(DOMAIN h) + 1)

Chain == Walk(heap, head)

PayloadsOf(h, p) == [i \in 1 .. Len(Walk(h, p)) |-> Text(h[Walk(h, p)[i]].value)]

Range(s) == {s[i] : i \in 1 .. Len(s)}

\* Every cell of the chain from p is allocated and the chain ends.
ChainOK(h, p) ==
    /\ Range(Walk(h, p)) \subseteq alloc
    /\ Len(Walk(h, p)) <= Cardinality(DOMAIN h)

\* ------------------------------------------------------------- q_reverse

RECURSIVE reverse_loop_short(_, _, _)
\* The loop with the condition q->head->next != NULL: it stops one cell early.
reverse_loop_short(h, cur, prev) ==
    IF cur = NULL \/ h[cur].next = NULL THEN h
    ELSE reverse_loop_short([h EXCEPT ![cur].next = prev], h[cur].next, cur)

RECURSIVE reverse_loop(_, _, _)
\* The while loop of q_reverse, q->head being cur.
reverse_loop(h, cur, prev) ==
    IF cur = NULL THEN h
    ELSE reverse_loop([h EXCEPT ![cur].next = prev], h[cur].next, cur)

\* --------------------------------------------------------------- q_sort

\* The comparison with its operands the other way round.
list_cmp_desc(h, l1, l2) == IF strcmp(h[l1].value, h[l2].value) <= 0 THEN FALSE ELSE TRUE

\* The comparison of the first bytes only.
list_cmp_first(h, l1, l2) == IF h[l1].value[1] - h[l2].value[1] >= 0 THEN FALSE ELSE TRUE

\* list_cmp: true when the string of l1 is strictly below that of l2.
list_cmp(h, l1, l2) == IF strcmp(h[l1].value, h[l2].value) >= 0 THEN FALSE ELSE TRUE

RECURSIVE merge_drop(_, _, _)
\* The merge that returns NULL, not l2, once l1 is used up.
merge_drop(h, l1, l2) ==
    IF l2 = NULL THEN [h |-> h, r |-> l1]
    ELSE IF l1 = NULL THEN [h |-> h, r |-> NULL]
    ELSE IF list_cmp(h, l1, l2)
         THEN LET m == merge_drop(h, h[l1].next, l2)
              IN  [h |-> [m.h EXCEPT ![l1].next = m.r], r |-> l1]
         ELSE LET m == merge_drop(h, l1, h[l2].next)
              IN  [h |-> [m.h EXCEPT ![l2].next = m.r], r |-> l2]

RECURSIVE merge(_, _, _)
\* The heap after merge(l1, l2) and the cell it returns.
merge(h, l1, l2) ==
    IF l2 = NULL THEN [h |-> h, r |-> l1]
    ELSE IF l1 = NULL THEN [h |-> h, r |-> l2]
    ELSE IF list_cmp(h, l1, l2)
         THEN LET m == merge(h, h[l1].next, l2)
              IN  [h |-> [m.h EXCEPT ![l1].next = m.r], r |-> l1]
         ELSE LET m == merge(h, l1, h[l2].next)
              IN  [h |-> [m.h EXCEPT ![l2].next = m.r], r |-> l2]

RECURSIVE split_nonext(_, _, _)
\* The loop with the condition while (fast), which runs once more on a list
\* of even length.
split_nonext(h, slow, fast) ==
    IF fast # NULL
    THEN split_nonext(h, h[slow].next,
                      IF h[fast].next = NULL THEN NULL ELSE h[h[fast].next].next)
    ELSE slow

RECURSIVE split(_, _, _)
\* The slow cursor after the slow/fast loop of merge_sort.
split(h, slow, fast) ==
    IF fast # NULL /\ h[fast].next # NULL
    THEN split(h, h[slow].next, h[h[fast].next].next)
    ELSE slow

RECURSIVE merge_sort(_, _)
merge_sort(h, hd) ==
    IF hd = NULL \/ h[hd].next = NULL THEN [h |-> h, r |-> hd]
    ELSE LET slow == split(h, hd, h[hd].next)
             fast == h[slow].next
             h1   == [h EXCEPT ![slow].next = NULL]
             s1   == merge_sort(h1, hd)
             s2   == merge_sort(s1.h, fast)
         IN  merge(s2.h, s1.r, s2.r)

\* The tail taken to be the new head, without the walk.
last_head(h, tmp) == tmp

RECURSIVE last(_, _)
\* The loop of q_sort that finds the cell whose next is NULL.
last(h, tmp) == IF h[tmp].next # NULL THEN last(h, h[tmp].next) ELSE tmp

\* ------------------------------------------------- depth of the recursion

Max(a, b) == IF a > b THEN a ELSE b

RECURSIVE merge_frames(_, _, _)
\* The calls of merge active at once in merge(l1, l2): each call that takes a
\* cell is still active while the call it makes runs.
merge_frames(h, l1, l2) ==
    IF l2 = NULL \/ l1 = NULL THEN 1
    ELSE IF list_cmp(h, l1, l2)
         THEN 1 + merge_frames(h, h[l1].next, l2)
         ELSE 1 + merge_frames(h, l1, h[l2].next)

RECURSIVE merge_sort_frames(_, _)
\* The most calls of merge_sort and merge active at once in merge_sort(hd).
merge_sort_frames(h, hd) ==
    IF hd = NULL \/ h[hd].next = NULL THEN 1
    ELSE LET slow == split(h, hd, h[hd].next)
             fast == h[slow].next
             h1   == [h EXCEPT ![slow].next = NULL]
             s1   == merge_sort(h1, hd)
             s2   == merge_sort(s1.h, fast)
         IN  1 + Max(Max(merge_sort_frames(h1, hd), merge_sort_frames(s1.h, fast)),
                     merge_frames(s2.h, s1.r, s2.r))

\* --------------------------------------------------------------- q_free

RECURSIVE free_loop_leak(_, _)
\* The loop without free(tmp->value).
free_loop_leak(st, p) ==
    IF p = NULL THEN st
    ELSE free_loop_leak([heap  |-> [st.heap EXCEPT ![p] = FreeCell],
                         alloc |-> st.alloc \ {p},
                         vals  |-> st.vals,
                         bad   |-> st.bad \/ p \notin st.alloc],
                        st.heap[p].next)

RECURSIVE free_loop(_, _)
\* The while loop of q_free, q->head being p: the next cell is read, then the
\* string and the cell are freed. bad: a block was freed that was not live.
free_loop(st, p) ==
    IF p = NULL THEN st
    ELSE free_loop([heap  |-> [st.heap EXCEPT ![p] = FreeCell],
                    alloc |-> st.alloc \ {p},
                    vals  |-> st.vals \ {p},
                    bad   |-> st.bad \/ p \notin st.alloc \/ p \notin st.vals],
                   st.heap[p].next)

\* --------------------------------------------------------------- q_size

q_size == IF q = "null" THEN 0 ELSE size

\* ------------------------------------------------- the abstract sequence

RECURSIVE LexLess(_, _)
\* a < b in the lexicographic order of texts.
LexLess(a, b) ==
    IF b = <<>> THEN FALSE
    ELSE IF a = <<>> THEN TRUE
    ELSE IF Head(a) # Head(b) THEN Head(a) < Head(b)
    ELSE LexLess(Tail(a), Tail(b))

LexLeq(a, b) == a = b \/ LexLess(a, b)

RECURSIVE InsertSorted(_, _)
InsertSorted(x, s) ==
    IF s = <<>> THEN <<x>>
    ELSE IF LexLess(x, Head(s)) THEN <<x>> \o s
    ELSE <<Head(s)>> \o InsertSorted(x, Tail(s))

RECURSIVE Ascending(_)
\* The ascending ordering of a sequence of texts.
Ascending(s) == IF s = <<>> THEN <<>> ELSE InsertSorted(Head(s), Ascending(Tail(s)))

RECURSIVE Reversed(_)
Reversed(s) == IF s = <<>> THEN <<>> ELSE Append(Reversed(Tail(s)), Head(s))

Streak(op) == IF lastOp = op THEN 2 ELSE 1

\* The queue as a call finds it: the chain of cells, their texts, the
\* references, the count and the abstract sequence.
Snapshot ==
    [chain |-> Chain, pays |-> PayloadsOf(heap, head), head |-> head,
     tail |-> tail, size |-> size, alloc |-> alloc, vals |-> vals, abs |-> abs]

\* ------------------------------------------------------------------ Init

\* q_new: the queue is NULL when its malloc failed, otherwise empty.
Init ==
    /\ q \in {"null", "live"}
    /\ head = NULL
    /\ tail = NULL
    /\ size = 0
    /\ heap = [n \in NodeIds |-> FreeCell]
    /\ alloc = {}
    /\ vals = {}
    /\ frames = 0
    /\ buf = NoBuf
    /\ cap = 0
    /\ lastOp = "q_new"
    /\ lastRet = (q = "live")
    /\ streak = 1
    /\ abs = <<>>
    /\ net = 0
    /\ uaf = FALSE
    /\ pre = Snapshot

\* --------------------------------------------------------------- actions

\* The record of a call: its name, what it returned (FALSE for void), whether
\* the call before it was the same operation, and the queue as it found it.
Called(op, ret) ==
    /\ lastOp' = op
    /\ lastRet' = ret
    /\ streak' = Streak(op)
    /\ pre' = Snapshot

\* A call that takes no output buffer.
NoOutput ==
    /\ buf' = NoBuf
    /\ cap' = 0

\* malloc of a list_ele_t: NULL (0) or any cell that is not allocated.
MallocNode == {NULL} \cup (NodeIds \ alloc)

\* The name of a string block that no cell owns.
Orphan == MaxNodes + 1

\* malloc of the copy of s: NULL, or a block, named after the cell that will
\* own it (Orphan when the malloc of the cell failed).
ValBlock(n, valOK) == IF ~valOK THEN NULL ELSE IF n = NULL THEN Orphan ELSE n

\* The failure branch that returns without free(newHead).
insert_fail_leak(a, v, n, b) == [alloc |-> a, vals |-> v \ {b}]

\* free(newHead); free(val) of the failure branch of the inserts; free(NULL)
\* does nothing.
insert_fail_release(a, v, n, b) == [alloc |-> a \ {n}, vals |-> v \ {b}]

\* The links q_insert_tail sets once the cell is filled: the heap, head, tail.
\* Without the write of q->tail->next.
insert_tail_unlinked(h, newTail) ==
    [heap |-> h, head |-> IF size = 0 THEN newTail ELSE head, tail |-> newTail]

\* With the test !q->tail in place of q->size == 0.
insert_tail_bytail(h, newTail) ==
    [heap |-> IF tail = NULL THEN h ELSE [h EXCEPT ![tail].next = newTail],
     head |-> IF tail = NULL THEN newTail ELSE head,
     tail |-> newTail]

insert_tail_links(h, newTail) ==
    [heap |-> IF size = 0 THEN h ELSE [h EXCEPT ![tail].next = newTail],
     head |-> IF size = 0 THEN newTail ELSE head,
     tail |-> newTail]

\* The queue fields q_remove_head sets, without the q->size--.
remove_head_nocount(h) == [head |-> h[head].next, size |-> size]

\* The queue fields q_remove_head sets.
remove_head_fields(h) == [head |-> h[head].next, size |-> size - 1]

\* The test the comment above q_remove_head describes: sp is not looked at.
remove_head_fails_doc(spNull) == q = "null" \/ head = NULL

\* if (!q || !sp || !q->head) return false;
remove_head_fails(spNull) == q = "null" \/ spNull \/ head = NULL

\* q_insert_head(q, s). valOK: the malloc of the copy of s succeeded.
q_insert_head(s, newHead, valOK) ==
    /\ q # "freed" /\ ~uaf
    /\ frames' = 0
    /\ IF q = "null"
       THEN /\ Called("q_insert_head", FALSE)
            /\ UNCHANGED <<q, head, tail, size, heap, alloc, vals, abs, net, uaf>>
       ELSE IF newHead = NULL \/ ~valOK
       THEN LET val == ValBlock(newHead, valOK)
                r   == insert_fail_release(alloc \cup ({newHead} \ {NULL}),
                                           vals \cup ({val} \ {NULL}), newHead, val)
            IN  /\ alloc' = r.alloc
                /\ vals' = r.vals
                /\ Called("q_insert_head", FALSE)
                /\ UNCHANGED <<q, head, tail, size, heap, abs, net, uaf>>
       ELSE LET strLen == strlen(CStr(s)) + 1
                val    == strlcpy(Block(strLen), CStr(s), strLen)
            IN  /\ heap' = [heap EXCEPT ![newHead] = [value |-> val, next |-> head]]
                /\ alloc' = alloc \cup {newHead}
                /\ vals' = vals \cup {ValBlock(newHead, valOK)}
                /\ head' = newHead
                /\ tail' = IF size = 0 THEN newHead ELSE tail
                /\ size' = size + 1
                /\ abs' = <<s>> \o abs
                /\ net' = net + 1
                /\ Called("q_insert_head", TRUE)
                /\ UNCHANGED <<q, uaf>>
    /\ NoOutput

\* q_insert_tail(q, s).
q_insert_tail(s, newTail, valOK) ==
    /\ q # "freed" /\ ~uaf
    /\ frames' = 0
    /\ IF q = "null"
       THEN /\ Called("q_insert_tail", FALSE)
            /\ UNCHANGED <<q, head, tail, size, heap, alloc, vals, abs, net, uaf>>
       ELSE IF newTail = NULL \/ ~valOK
       THEN LET val == ValBlock(newTail, valOK)
                r   == insert_fail_release(alloc \cup ({newTail} \ {NULL}),
                                           vals \cup ({val} \ {NULL}), newTail, val)
            IN  /\ alloc' = r.alloc
                /\ vals' = r.vals
                /\ Called("q_insert_tail", FALSE)
                /\ UNCHANGED <<q, head, tail, size, heap, abs, net, uaf>>
       ELSE IF size # 0 /\ tail \notin alloc
       THEN \* q->tail->next is written through a pointer to no live cell
            /\ uaf' = TRUE
            /\ Called("q_insert_tail", TRUE)
            /\ UNCHANGED <<q, head, tail, size, heap, alloc, vals, abs, net>>
       ELSE LET strLen == strlen(CStr(s)) + 1
                val    == strlcpy(Block(strLen), CStr(s), strLen)
                h1     == [heap EXCEPT ![newTail] = [value |-> val, next |-> NULL]]
                l      == insert_tail_links(h1, newTail)
            IN  /\ heap' = l.heap
                /\ alloc' = alloc \cup {newTail}
                /\ vals' = vals \cup {ValBlock(newTail, valOK)}
                /\ head' = l.head
                /\ tail' = l.tail
                /\ size' = size + 1
                /\ abs' = Append(abs, s)
                /\ net' = net + 1
                /\ Called("q_insert_tail", TRUE)
                /\ UNCHANGED <<q, uaf>>
    /\ NoOutput

\* q_remove_head(q, sp, bufsize); sp is NULL when spNull, otherwise a buffer
\* of MaxBuf bytes that nothing has written.
q_remove_head(spNull, bufsize) ==
    /\ q # "freed" /\ ~uaf
    /\ frames' = 0
    /\ cap' = bufsize
    /\ IF remove_head_fails(spNull)
       THEN /\ Called("q_remove_head", FALSE)
            /\ buf' = IF spNull THEN NoBuf ELSE FreshBuf
            /\ UNCHANGED <<q, head, tail, size, heap, alloc, vals, abs, net, uaf>>
       ELSE IF head \notin alloc
       THEN /\ uaf' = TRUE
            /\ Called("q_remove_head", TRUE)
            /\ buf' = FreshBuf
            /\ UNCHANGED <<q, head, tail, size, heap, alloc, vals, abs, net>>
       ELSE LET rmElem      == head
                strLen      == strlen(heap[rmElem].value) + 1
                realBufSize == IF bufsize > strLen THEN strLen ELSE bufsize
            IN  /\ buf' = strlcpy(FreshBuf, heap[rmElem].value, realBufSize)
                /\ head' = remove_head_fields(heap).head
                /\ size' = remove_head_fields(heap).size
                /\ heap' = [heap EXCEPT ![rmElem] = FreeCell]
                /\ vals' = vals \ {rmElem}
                /\ alloc' = alloc \ {rmElem}
                /\ abs' = Tail(abs)
                /\ net' = net - 1
                /\ Called("q_remove_head", TRUE)
                /\ UNCHANGED <<q, tail, uaf>>

\* q_reverse(q).
q_reverse ==
    /\ q # "freed" /\ ~uaf
    /\ frames' = 0
    /\ Called("q_reverse", FALSE)
    /\ NoOutput
    /\ IF q = "null" \/ head = NULL
       THEN UNCHANGED <<q, head, tail, size, heap, alloc, vals, abs, net, uaf>>
       ELSE IF ~ChainOK(heap, head)
       THEN /\ uaf' = TRUE
            /\ UNCHANGED <<q, head, tail, size, heap, alloc, vals, abs, net>>
       ELSE LET tmp == head
            IN  /\ heap' = reverse_loop(heap, head, NULL)
                /\ head' = tail
                /\ tail' = tmp
                /\ abs' = Reversed(abs)
                /\ UNCHANGED <<q, size, alloc, vals, net, uaf>>

\* q_sort(q). frames: the most calls of merge_sort and merge active at once.
q_sort ==
    /\ q # "freed" /\ ~uaf
    /\ Called("q_sort", FALSE)
    /\ NoOutput
    /\ IF q = "null" \/ head = NULL
       THEN /\ frames' = 0
            /\ UNCHANGED <<q, head, tail, size, heap, alloc, vals, abs, net, uaf>>
       ELSE IF ~ChainOK(heap, head)
       THEN /\ uaf' = TRUE
            /\ frames' = 0
            /\ UNCHANGED <<q, head, tail, size, heap, alloc, vals, abs, net>>
       ELSE IF heap[head].next = NULL
       THEN /\ frames' = 0
            /\ UNCHANGED <<q, head, tail, size, heap, alloc, vals, abs, net, uaf>>
       ELSE LET m == merge_sort(heap, head)
            IN  /\ heap' = m.h
                /\ head' = m.r
                /\ tail' = last(m.h, m.r)
                /\ frames' = merge_sort_frames(heap, head)
                /\ abs' = Ascending(abs)
                /\ UNCHANGED <<q, size, alloc, vals, net, uaf>>

\* q_free(q): every cell of the chain and its string, then the queue.
q_free ==
    /\ q # "freed" /\ ~uaf
    /\ frames' = 0
    /\ Called("q_free", FALSE)
    /\ NoOutput
    /\ IF q = "null"
       THEN UNCHANGED <<q, head, tail, size, heap, alloc, vals, abs, net, uaf>>
       ELSE IF ~ChainOK(heap, head)
       THEN /\ uaf' = TRUE
            /\ UNCHANGED <<q, head, tail, size, heap, alloc, vals, abs, net>>
       ELSE LET r == free_loop([heap |-> heap, alloc |-> alloc, vals |-> vals,
                                bad |-> FALSE], head)
            IN  /\ heap' = r.heap
                /\ alloc' = r.alloc
                /\ vals' = r.vals
                /\ uaf' = r.bad
                /\ head' = NULL
                /\ q' = "freed"
                /\ UNCHANGED <<tail, size, abs, net>>

Next ==
    \/ \E s \in Payloads, n \in MallocNode, valOK \in BOOLEAN : q_insert_head(s, n, valOK)
    \/ \E s \in Payloads, n \in MallocNode, valOK \in BOOLEAN : q_insert_tail(s, n, valOK)
    \/ \E spNull \in BOOLEAN, bufsize \in 0 .. MaxBuf : q_remove_head(spNull, bufsize)
    \/ q_reverse
    \/ q_sort
    \/ q_free

Spec == Init /\ [][Next]_vars

\* ------------------------------------------------ longer lists for q_sort

\* Longest list q_sort is called on in SpecSort.
MaxList == 8

\* The string an insert stores for the text s.
StoredString(s) == strlcpy(Block(strlen(CStr(s)) + 1), CStr(s), strlen(CStr(s)) + 1)

\* The queue after q_insert_tail has stored the texts of pays in cells
\* 1 .. n, in this order, and a further insert has failed.
InitSort ==
    \E n \in 1 .. MaxList : \E pays \in [1 .. n -> Payloads] :
        /\ q = "live"
        /\ head = 1
        /\ tail = n
        /\ size = n
        /\ heap = [i \in 1 .. MaxList |->
                      IF i <= n
                      THEN [value |-> StoredString(pays[i]),
                            next |-> IF i < n THEN i + 1 ELSE NULL]
                      ELSE FreeCell]
        /\ alloc = 1 .. n
        /\ vals = 1 .. n
        /\ frames = 0
        /\ buf = NoBuf
        /\ cap = 0
        /\ lastOp = "q_insert_tail"
        /\ lastRet = FALSE
        /\ streak = 1
        /\ abs = pays
        /\ net = n
        /\ uaf = FALSE
        /\ pre = Snapshot

NextSort == q_sort

SpecSort == InitSort /\ [][NextSort]_vars

\* ---------------------------------------------------------------- claims

Pays == PayloadsOf(heap, head)

Count(s, x) == Cardinality({i \in 1 .. Len(s) : s[i] = x})

Pos(s, x) == CHOOSE i \in 1 .. Len(s) : s[i] = x

NonDecreasing(s) == \A i \in 1 .. Len(s) - 1 : LexLeq(s[i], s[i + 1])

\* C1: whenever the stored count is greater than 0, the chain of next
\* references from head holds exactly count cells, none twice, its last cell
\* is the one tail designates, and that cell's next is NULL.
ChainMatchesCount ==
    (q = "live" /\ size > 0) =>
        /\ Len(Chain) = size
        /\ Cardinality(Range(Chain)) = size
        /\ Chain[Len(Chain)] = tail
        /\ heap[tail].next = NULL

\* A queue of at least two cells that q_sort has just relinked.
ChainMatchesCountWitness ==
    /\ q = "live" /\ size >= 2
    /\ lastOp = "q_sort" /\ pre.chain # Chain

\* C2: the stored count is 0 if and only if head and tail are both NULL.
CountZeroIffNoRefs ==
    q = "live" => ((size = 0) <=> (head = NULL /\ tail = NULL))

\* C3: the texts read by walking next from head are the abstract sequence
\* (prepend, append, drop first, reversal, ascending ordering), the size is
\* its length, and a successful remove reports the dropped element, cut to
\* the capacity of the buffer.
RefinesSequence ==
    q = "live" =>
        /\ Pays = abs
        /\ q_size = Len(abs)
        /\ (lastOp = "q_remove_head" /\ lastRet /\ cap >= 1) =>
               /\ pre.abs # <<>>
               /\ Text(buf) = SubSeq(Head(pre.abs), 1, Min(Len(Head(pre.abs)), cap - 1))

\* insert-tail(banana), insert-tail(apple), insert-head(cherry), with
\* apple = <<1>>, banana = <<1, 1>>, cherry = <<2>>.
RefinesSequenceWitness ==
    /\ q = "live" /\ lastOp = "q_insert_head" /\ lastRet
    /\ Pays = <<<<2>>, <<1, 1>>, <<1>>>>
    /\ q_size = 3

\* C4: q_size is the number of inserts that returned true minus the number
\* of removes that returned true, and is never negative.
SizeIsInsertsMinusRemoves ==
    q # "freed" => (q_size = net /\ q_size >= 0)

\* A successful remove from a queue of two.
SizeIsInsertsMinusRemovesWitness ==
    /\ q = "live" /\ lastOp = "q_remove_head" /\ lastRet
    /\ pre.size = 2 /\ q_size = 1

\* C5: after q_sort the texts walked from head are non-decreasing in the
\* lexicographic order and are the texts of before the call, each as often.
SortOrdersAndPermutes ==
    (q = "live" /\ lastOp = "q_sort") =>
        /\ NonDecreasing(Pays)
        /\ Len(Pays) = Len(pre.pays)
        /\ \A t \in Payloads : Count(Pays, t) = Count(pre.pays, t)

\* q_sort has just sorted [cherry, banana, apple].
SortOrdersAndPermutesWitness ==
    /\ q = "live" /\ lastOp = "q_sort"
    /\ pre.pays = <<<<2>>, <<1, 1>>, <<1>>>>
    /\ Pays = <<<<1>>, <<1, 1>>, <<2>>>>

\* C6: q_sort is stable: of two cells with equal texts, the one that came
\* first before q_sort still comes first after it.
SortIsStable ==
    (q = "live" /\ lastOp = "q_sort") =>
        \A i, j \in 1 .. Len(pre.chain) :
            (i < j /\ pre.pays[i] = pre.pays[j]) =>
                Pos(Chain, pre.chain[i]) < Pos(Chain, pre.chain[j])

\* C7: after q_reverse on a non-empty queue the cells walked from head are
\* the previous ones in reverse order, head is the old tail and tail the
\* old head.
ReverseReversesCells ==
    (q = "live" /\ lastOp = "q_reverse" /\ pre.head # NULL) =>
        /\ Chain = Reversed(pre.chain)
        /\ head = pre.tail
        /\ tail = pre.head

\* q_reverse has just reversed three cells.
ReverseReversesCellsWitness ==
    /\ q = "live" /\ lastOp = "q_reverse"
    /\ Len(pre.chain) = 3 /\ head # pre.head

\* C8: the second of two q_reverse calls in a row leaves the texts, head,
\* tail and count as they were before the first.
ReverseTwiceRestores ==
    [][(q = "live" /\ lastOp = "q_reverse" /\ lastOp' = "q_reverse") =>
          /\ PayloadsOf(heap', head') = pre.pays
          /\ head' = pre.head
          /\ tail' = pre.tail
          /\ size' = pre.size]_vars

\* Two q_reverse calls in a row on a queue whose texts are no palindrome.
ReverseTwiceRestoresWitness ==
    /\ q = "live" /\ lastOp = "q_reverse" /\ streak = 2
    /\ size >= 2 /\ Pays # Reversed(Pays)

\* C9: a q_sort right after a q_sort leaves the sequence of texts as the
\* first call left it.
SortTwiceSame ==
    [][(q = "live" /\ lastOp = "q_sort" /\ lastOp' = "q_sort") =>
          PayloadsOf(heap', head') = Pays]_vars

\* Two q_sort calls in a row, the second of which moved cells of equal text.
SortTwiceSameWitness ==
    /\ q = "live" /\ lastOp = "q_sort" /\ streak = 2
    /\ size >= 2 /\ Chain # pre.chain

\* C10: q_reverse and q_sort keep the set of cells reachable from head, the
\* text of each cell, the stored count and the set of allocated cells.
SortReverseKeepCells ==
    (q = "live" /\ lastOp \in {"q_reverse", "q_sort"}) =>
        /\ Range(Chain) = Range(pre.chain)
        /\ Len(Chain) = Len(pre.chain)
        /\ \A i \in 1 .. Len(pre.chain) : Text(heap[pre.chain[i]].value) = pre.pays[i]
        /\ size = pre.size
        /\ alloc = pre.alloc

\* q_sort or q_reverse has just relinked three cells.
SortReverseKeepCellsWitness ==
    /\ q = "live" /\ lastOp \in {"q_reverse", "q_sort"}
    /\ size = 3 /\ Chain # pre.chain


InsertFailureReleases ==
    (q = "live" /\ lastOp \in {"q_insert_head", "q_insert_tail"} /\ ~lastRet) =>
        /\ alloc = pre.alloc
        /\ vals = pre.vals
        /\ head = pre.head /\ tail = pre.tail /\ size = pre.size
        /\ Chain = pre.chain /\ Pays = pre.pays

\* An insert has failed on a queue of one while a cell was still free.
InsertFailureReleasesWitness ==
    /\ q = "live" /\ lastOp \in {"q_insert_head", "q_insert_tail"} /\ ~lastRet
    /\ size = 1 /\ alloc # NodeIds

\* C13: a successful q_remove_head with capacity c >= 1 and a text of length
\* n writes the first min(n, c - 1) bytes of the text and a terminator; with
\* any capacity no byte at index c or beyond is written; with capacity 1 the
\* buffer holds the terminator only.
RemoveCopiesTruncated ==
    (q = "live" /\ lastOp = "q_remove_head" /\ lastRet) =>
        LET text == pre.pays[1]
            m    == Min(Len(text), cap - 1)
        IN  /\ cap >= 1 => /\ \A i \in 1 .. m : buf[i] = text[i]
                           /\ buf[m + 1] = NUL
            /\ \A i \in cap + 1 .. MaxBuf : buf[i] = Fill
            /\ cap = 1 => buf[1] = NUL

\* A text of two bytes has been removed into a buffer of capacity 2.
RemoveCopiesTruncatedWitness ==
    /\ q = "live" /\ lastOp = "q_remove_head" /\ lastRet
    /\ cap = 2 /\ Len(pre.pays[1]) = 2 /\ Text(buf) = SubSeq(pre.pays[1], 1, 1)

\* C14: an insert into a queue that q_remove_head has emptied makes a queue
\* of one cell: head and tail both designate the new cell, its next is NULL,
\* and the removed cell, which tail still named, is not linked and not
\* written.
InsertAfterEmptiedIgnoresTail ==
    (/\ q = "live" /\ lastOp \in {"q_insert_head", "q_insert_tail"} /\ lastRet
     /\ pre.size = 0 /\ pre.tail # NULL) =>
        /\ size = 1
        /\ head = tail
        /\ head \in alloc
        /\ Chain = <<head>>
        /\ heap[head].next = NULL
        /\ ~uaf
        /\ pre.tail # head => (pre.tail \notin alloc /\ heap[pre.tail] = FreeCell)

\* q_insert_tail has succeeded on an emptied queue whose tail named a
\* released cell other than the one malloc returned.
InsertAfterEmptiedIgnoresTailWitness ==
    /\ q = "live" /\ lastOp = "q_insert_tail" /\ lastRet
    /\ pre.size = 0 /\ pre.tail # NULL /\ pre.tail # head

\* C15: q_free releases every cell still allocated and its string, each
\* once, then the queue; no cell and no string stays allocated.
FreeReleasesAll ==
    (lastOp = "q_free" /\ q # "null") =>
        /\ q = "freed"
        /\ alloc = {}
        /\ vals = {}
        /\ ~uaf
        /\ \A n \in NodeIds : heap[n] = FreeCell

\* q_free has released a queue of three cells that q_sort or q_reverse had
\* relinked or an insert had filled.
FreeReleasesAllWitness ==
    /\ q = "freed" /\ lastOp = "q_free"
    /\ pre.size = 3 /\ pre.alloc = NodeIds /\ pre.vals = NodeIds

\* C16: q_remove_head returns false only if the queue is NULL or empty; on a
\* queue that is not empty it removes the head and returns true, whether sp
\* is NULL or not.
RemoveFailsOnlyOnNullOrEmpty ==
    (q = "live" /\ lastOp = "q_remove_head" /\ pre.head # NULL) =>
        /\ lastRet
        /\ size = pre.size - 1

\* C17: no call reads or writes a cell that has been released: every cell of
\* the chain and every next of an allocated cell is allocated, a released
\* cell is never written, and a tail that names a released cell goes with a
\* NULL head.
NoReleasedCellUsed ==
    /\ ~uaf
    /\ Range(Chain) \subseteq alloc
    /\ \A n \in alloc : heap[n].next \in alloc \cup {NULL}
    /\ \A n \in NodeIds \ alloc : heap[n] = FreeCell
    /\ (q = "live" /\ tail # NULL /\ tail \notin alloc) => (head = NULL /\ size = 0)

\* q_reverse, q_sort or q_free has run on a queue whose tail named a
\* released cell.
NoReleasedCellUsedWitness ==
    /\ lastOp \in {"q_reverse", "q_sort", "q_free"}
    /\ pre.tail # NULL /\ pre.tail \notin pre.alloc

RECURSIVE SortRecursionShrinks(_, _)
\* In merge_sort(hd) and in every call it makes, the slow/fast split of a
\* list of two cells or more gives two halves that are not empty and are
\* shorter than the list, and merge is not called more often than the two
\* halves have cells.
SortRecursionShrinks(h, hd) ==
    IF hd = NULL \/ h[hd].next = NULL THEN TRUE
    ELSE LET slow == split(h, hd, h[hd].next)
             fast == h[slow].next
             h1   == [h EXCEPT ![slow].next = NULL]
             n    == Len(Walk(h, hd))
             l    == Len(Walk(h1, hd))
             r    == Len(Walk(h1, fast))
             s1   == merge_sort(h1, hd)
             s2   == merge_sort(s1.h, fast)
         IN  /\ l >= 1 /\ r >= 1 /\ l < n /\ r < n /\ l + r = n
             /\ SortRecursionShrinks(h1, hd)
             /\ SortRecursionShrinks(s1.h, fast)
             /\ merge_frames(s2.h, s1.r, s2.r) <= n

\* C18: q_reverse, q_sort and q_free terminate: the chain from head has no
\* cycle and ends after size cells, every split in merge_sort gives two
\* shorter halves that are not empty, merge takes one cell per call, and the
\* recursion of the last q_sort was no deeper than size + 1.
SortReverseFreeTerminate ==
    /\ Len(Chain) <= Cardinality(alloc)
    /\ Cardinality(Range(Chain)) = Len(Chain)
    /\ q = "live" =>
           /\ Len(Chain) = size
           /\ SortRecursionShrinks(heap, head)
           /\ (lastOp = "q_sort" /\ size >= 2) => (frames >= 2 /\ frames <= size + 1)

\* q_sort has sorted three cells with a recursion of depth 4.
SortReverseFreeTerminateWitness ==
    /\ q = "live" /\ lastOp = "q_sort"
    /\ size = 3 /\ frames = 4 /\ Chain # pre.chain

RECURSIVE CeilLog2(_)
\* The least k with 2^k >= n.
CeilLog2(n) == IF n <= 1 THEN 0 ELSE 1 + CeilLog2((n + 1) \div 2)

\* C19: while q_sort runs on n cells, the calls of merge_sort and merge
\* active at once are bounded by a logarithmic function of n; the function
\* taken here is twice the depth of the recursion of merge_sort itself,
\* 2 * (ceil(log2 n) + 1).
SortDepthLogarithmic ==
    (q = "live" /\ lastOp = "q_sort" /\ size >= 2) =>
        frames <= 2 * (CeilLog2(size) + 1)

====
